---- MODULE Spec2Model ----
(***************************************************************************)
(* Virtual Number Reseller: the wallet, the top-up callback and the buy    *)
(* flow of src/railway_virtual_number_reseller.jsx (routes/topup.js,       *)
(* routes/orders.js, routes/admin.js over models/migrations.sql).          *)
(*                                                                         *)
(* Every route is an async Express handler on one shared pg Client.  Each  *)
(* `await client.query(...)` is one SQL statement, executed atomically by  *)
(* the database; between two awaits of one handler any other handler may  *)
(* run.  So one action of the model is one awaited statement of one        *)
(* handler, and an awaited call that rejects (a provider or database       *)
(* error) ends the handler there, with what it has already written kept:   *)
(* no handler opens a transaction or catches anything.                     *)
(*                                                                         *)
(* Money is counted in whole units; on such values parseFloat of the       *)
(* NUMERIC text pg returns is exact, so the comparison of line 390 is the  *)
(* comparison of the numbers.                                              *)
(***************************************************************************)
EXTENDS Integers, Sequences, FiniteSets

(* ------------------------------ bounds --------------------------------- *)
NumUsers == 1
NumServices == 1
NumBuys == 2
NumCallbacks == 2
MaxTopups == 1
MaxAmount == 1
MaxPrice == 2

(* ------------------------- program constants --------------------------- *)
\* users.wallet_balance NUMERIC DEFAULT 0
DefaultBalance == 0
\* services.price NUMERIC DEFAULT 1
DefaultPrice == 1
\* services.active BOOLEAN DEFAULT TRUE
DefaultActive == TRUE

Users == 1..NumUsers
Services == 1..NumServices
\* a request may name a service id that has no row
ServiceIds == 1..(NumServices + 1)
BuyIds == 1..NumBuys
CbIds == 1..NumCallbacks
\* a callback may name a topup id that has no row
TopupIds == 1..(MaxTopups + 1)
Amounts == 1..MaxAmount
Prices == 1..MaxPrice
Statuses == {"PAID", "FAILED"}
\* the amount field of a callback body need not be the amount of any topup
BodyAmounts == 1..(MaxAmount + 1)
\* whether the event's signature would verify against TOYYIB_CALLBACK_SECRET
Signatures == {"valid", "invalid"}

VARIABLES
    wallet_balance, \* users.wallet_balance, per user id
    price,          \* services.price, per service id
    active,         \* services.active, per service id
    topups,         \* the topups table: row id = index
    orders,         \* the orders table: row id = index
    provider,       \* numbers the upstream provider has allocated so far
    buy,            \* the POST /buy handlers: position and locals
    cb,             \* the POST /callback handlers: position and locals
    hist            \* history of each buy attempt (not program state)

vars == <<wallet_balance, price, active, topups, orders, provider, buy, cb, hist>>

(* --------------------------- initial state ----------------------------- *)
BuyIdle ==
    [pc |-> "idle", res |-> "none", user_id |-> 0, service_id |-> 0,
     service_price |-> 0, u_balance |-> 0, providerResult |-> 0, order_id |-> 0]

CbIdle ==
    [pc |-> "idle", res |-> "none", topupId |-> 0, status |-> "none",
     amount |-> 0, signature |-> "none", row_user |-> 0, row_amount |-> 0]

HistIdle == [bal0 |-> 0, touched |-> {}, rivals |-> {}, repriced |-> FALSE, checked |-> 0]

\* the tables as migrations.sql creates them, with every user and service
\* row at its column defaults save for services.active, which no route
\* writes: it is whatever the row was inserted with
InitWith(act) ==
    /\ wallet_balance = [u \in Users |-> DefaultBalance]
    /\ price = [s \in Services |-> DefaultPrice]
    /\ active = [s \in Services |-> act]
    /\ topups = << >>
    /\ orders = << >>
    /\ provider = 0
    /\ buy = [h \in BuyIds |-> BuyIdle]
    /\ cb = [c \in CbIds |-> CbIdle]
    /\ hist = [h \in BuyIds |-> HistIdle]

Init == InitWith(DefaultActive)

\* the catalogue with its services switched off
InitInactive == InitWith(FALSE)

(* ------------------------------ helpers -------------------------------- *)
\* a buy attempt that has been received and has not ended
InFlight(h) == buy[h].res = "pending"

\* the in-flight buy attempts of user u other than h get `kind` recorded:
\* another operation changed that user's balance during the attempt
Touch(u, h, kind) ==
    [k \in BuyIds |->
        IF k # h /\ InFlight(k) /\ buy[k].user_id = u
        THEN [hist[k] EXCEPT !.touched = @ \cup {kind}]
        ELSE hist[k]]

(* ------------------- routes/topup.js: POST /create --------------------- *)
\* line 286: INSERT INTO topups(user_id, amount, status) ... 'pending'.
\* The bill request to the gateway that follows writes nothing locally.
TopupCreate(u, amt) ==
    /\ Len(topups) < MaxTopups
    /\ topups' = Append(topups, [user_id |-> u, amount |-> amt, status |-> "pending"])
    /\ UNCHANGED <<wallet_balance, price, active, orders, provider, buy, cb, hist>>

(* ------------------ routes/topup.js: POST /callback -------------------- *)
\* lines 309-315 and 321: the body is destructured and the topup id parsed
\* from billExternalReferenceNo; nothing is verified (line 310 is a comment
\* only: the signature the event carries is never read).  A status other
\* than 'PAID' skips the if and answers 'OK' at once, with no statement run.
\* Of a handler that has answered, cb keeps what its statements used; the
\* amount and signature of the body, which no statement reads, go with the
\* handler's frame (the amount is kept beside a completed credit, to be
\* compared with what was credited).
CallbackReceive(c, tid, st, amt, sig) ==
    /\ cb[c].pc = "idle"
    /\ \A k \in CbIds : k < c => cb[k].pc # "idle"
    /\ cb' = [cb EXCEPT ![c] =
                IF st = "PAID"
                THEN [@ EXCEPT !.pc = "update", !.res = "pending",
                               !.topupId = tid, !.status = st, !.amount = amt,
                               !.signature = sig]
                ELSE [@ EXCEPT !.pc = "done", !.res = "OK",
                               !.topupId = tid, !.status = st]]
    /\ UNCHANGED <<wallet_balance, price, active, topups, orders, provider, buy, hist>>

\* line 316: UPDATE topups SET status='paid' WHERE id=topupId, whatever the
\* row's status was; no row matches an unknown id
CallbackMarkPaid(c) ==
    /\ cb[c].pc = "update" /\ cb[c].res = "pending"
    /\ topups' = [t \in DOMAIN topups |->
                    IF t = cb[c].topupId
                    THEN [topups[t] EXCEPT !.status = "paid"]
                    ELSE topups[t]]
    /\ cb' = [cb EXCEPT ![c].pc = "select"]
    /\ UNCHANGED <<wallet_balance, price, active, orders, provider, buy, hist>>

\* line 318: SELECT user_id, amount FROM topups WHERE id=topupId.  With no
\* row, topup.rows[0] is undefined and line 319 throws a TypeError while it
\* builds its arguments, before any statement is sent.
CallbackSelectTopup(c) ==
    /\ cb[c].pc = "select" /\ cb[c].res = "pending"
    /\ cb' = [cb EXCEPT ![c] =
                IF cb[c].topupId \in DOMAIN topups
                THEN [@ EXCEPT !.pc = "credit",
                               !.row_user = topups[cb[c].topupId].user_id,
                               !.row_amount = topups[cb[c].topupId].amount]
                ELSE [@ EXCEPT !.pc = "credit", !.res = "thrown",
                               !.amount = 0, !.signature = "none"]]
    /\ UNCHANGED <<wallet_balance, price, active, topups, orders, provider, buy, hist>>

\* CallbackCredit with the amount taken from the callback body
CallbackCredit_BodyAmount(c) ==
    /\ cb[c].pc = "credit" /\ cb[c].res = "pending"
    /\ wallet_balance' = [wallet_balance EXCEPT ![cb[c].row_user] = @ + cb[c].amount]
    /\ cb' = [cb EXCEPT ![c].pc = "done", ![c].res = "OK", ![c].signature = "none"]
    /\ hist' = Touch(cb[c].row_user, 0, "topup")
    /\ UNCHANGED <<price, active, topups, orders, provider, buy>>

\* lines 319 and 321: UPDATE users SET wallet_balance = wallet_balance + amount
\* (one statement: the addition is done by the database), then 'OK'
CallbackCredit(c) ==
    /\ cb[c].pc = "credit" /\ cb[c].res = "pending"
    /\ wallet_balance' = [wallet_balance EXCEPT ![cb[c].row_user] = @ + cb[c].row_amount]
    /\ cb' = [cb EXCEPT ![c].pc = "done", ![c].res = "OK", ![c].signature = "none"]
    /\ hist' = Touch(cb[c].row_user, 0, "topup")
    /\ UNCHANGED <<price, active, topups, orders, provider, buy>>

\* lines 316, 318, 319: the awaited statement rejects (or the process stops
\* there); the handler ends where it is, earlier statements stay committed
CallbackStop(c) ==
    /\ cb[c].pc \in {"update", "select", "credit"} /\ cb[c].res = "pending"
    /\ cb' = [cb EXCEPT ![c].res = "thrown", ![c].amount = 0, ![c].signature = "none"]
    /\ UNCHANGED <<wallet_balance, price, active, topups, orders, provider, buy, hist>>

(* ------------- routes/admin.js: POST /service/:id/price ---------------- *)
\* buy attempt k has passed its balance check, has not deducted yet, and the
\* price of its service is changed to p under it
Repriced(k, s, p) ==
    /\ buy[k].res = "pending" /\ buy[k].service_id = s
    /\ buy[k].pc \in {"provider", "insert", "deduct"}
    /\ p # price[s]

\* line 423: UPDATE services SET price=$1 WHERE id=$2
AdminSetPrice(s, p) ==
    /\ price' = [price EXCEPT ![s] = p]
    /\ hist' = [k \in BuyIds |->
                    IF Repriced(k, s, p)
                    THEN [hist[k] EXCEPT !.repriced = TRUE]
                    ELSE hist[k]]
    /\ UNCHANGED <<wallet_balance, active, topups, orders, provider, buy, cb>>

(* -------------------- routes/orders.js: POST /buy ---------------------- *)
\* lines 380-382: the request is received; user_id and service_id are taken
\* from the body
BuyReceive(h, u, sid) ==
    /\ buy[h].pc = "idle"
    /\ \A k \in BuyIds : k < h => buy[k].pc # "idle"
    /\ buy' = [buy EXCEPT ![h] = [@ EXCEPT !.pc = "load", !.res = "pending",
                                           !.user_id = u, !.service_id = sid]]
    /\ hist' = [hist EXCEPT ![h].bal0 = wallet_balance[u]]
    /\ UNCHANGED <<wallet_balance, price, active, topups, orders, provider, cb>>

\* lines 384-386: SELECT * FROM services WHERE id=service_id; no row answers
\* 400 'service not found'.  The row is kept in `service`: its price is read
\* here, once (the active column is not looked at).
BuyLoadService(h) ==
    /\ buy[h].pc = "load" /\ InFlight(h)
    /\ buy' = [buy EXCEPT ![h] =
                IF buy[h].service_id \in Services
                THEN [@ EXCEPT !.pc = "check", !.service_price = price[buy[h].service_id]]
                ELSE [@ EXCEPT !.res = "400"]]
    /\ UNCHANGED <<wallet_balance, price, active, topups, orders, provider, cb, hist>>

\* the other attempts of the same user that have passed the balance check and
\* whose deduction is still to come, and that the balance read now does not
\* cover together with this one
Rivals(h) ==
    {k \in BuyIds \ {h} :
        /\ InFlight(k) /\ buy[k].user_id = buy[h].user_id
        /\ buy[k].pc \in {"provider", "insert", "deduct"}
        /\ wallet_balance[buy[h].user_id] < buy[h].service_price + buy[k].service_price}

\* BuyCheckBalance with the balance compared against zero, not the price
BuyCheckBalance_AgainstZero(h) ==
    /\ buy[h].pc = "check" /\ InFlight(h)
    /\ buy' = [buy EXCEPT ![h] =
                IF wallet_balance[buy[h].user_id] < 0
                THEN [@ EXCEPT !.res = "402", !.u_balance = wallet_balance[buy[h].user_id]]
                ELSE [@ EXCEPT !.pc = "provider", !.u_balance = wallet_balance[buy[h].user_id]]]
    /\ hist' = [hist EXCEPT ![h].rivals = {}, ![h].checked = 0]
    /\ UNCHANGED <<wallet_balance, price, active, topups, orders, provider, cb>>

\* lines 389-390: SELECT wallet_balance FROM users WHERE id=user_id; a balance
\* below service.price answers 402 'insufficient balance'
BuyCheckBalance(h) ==
    /\ buy[h].pc = "check" /\ InFlight(h)
    /\ buy' = [buy EXCEPT ![h] =
                IF wallet_balance[buy[h].user_id] < buy[h].service_price
                THEN [@ EXCEPT !.res = "402", !.u_balance = wallet_balance[buy[h].user_id]]
                ELSE [@ EXCEPT !.pc = "provider", !.u_balance = wallet_balance[buy[h].user_id]]]
    /\ hist' = [hist EXCEPT ![h].rivals =
                                IF wallet_balance[buy[h].user_id] < buy[h].service_price
                                THEN {} ELSE Rivals(h),
                            ![h].checked = buy[h].service_price]
    /\ UNCHANGED <<wallet_balance, price, active, topups, orders, provider, cb>>

\* BuyCallProvider with the deduction made here, ahead of the provider's
\* answer, and nothing that gives it back
BuyCallProvider_DebitFirst(h) ==
    /\ buy[h].pc = "provider" /\ InFlight(h)
    /\ provider' = provider + 1
    /\ wallet_balance' = [wallet_balance EXCEPT ![buy[h].user_id] = @ - buy[h].service_price]
    /\ buy' = [buy EXCEPT ![h].pc = "insert", ![h].providerResult = provider + 1]
    /\ hist' = Touch(buy[h].user_id, h, "buy")
    /\ UNCHANGED <<price, active, topups, orders, cb>>

\* lines 393-395: orderNumber(service.code) of the service's provider returns
\* a freshly allocated number (both wrappers, lines 334-338 and 355-358, have
\* the same shape)
BuyCallProvider(h) ==
    /\ buy[h].pc = "provider" /\ InFlight(h)
    /\ provider' = provider + 1
    /\ buy' = [buy EXCEPT ![h].pc = "insert", ![h].providerResult = provider + 1]
    /\ UNCHANGED <<wallet_balance, price, active, topups, orders, cb, hist>>

\* lines 394-395: the provider's request fails; axios rejects and the handler
\* ends there (nothing catches it)
BuyProviderError(h) ==
    /\ buy[h].pc = "provider" /\ InFlight(h)
    /\ buy' = [buy EXCEPT ![h].res = "thrown"]
    /\ UNCHANGED <<wallet_balance, price, active, topups, orders, provider, cb, hist>>

\* BuyInsertOrder as an upsert: a user who has an order row gets that row
\* rewritten with the new number
BuyInsertOrder_Upsert(h) ==
    /\ buy[h].pc = "insert" /\ InFlight(h)
    /\ LET own == {o \in DOMAIN orders : orders[o].user_id = buy[h].user_id}
           row == [user_id |-> buy[h].user_id, service_id |-> buy[h].service_id,
                   provider_order_id |-> buy[h].providerResult, status |-> "waiting"]
       IN  IF own = {}
           THEN /\ orders' = Append(orders, row)
                /\ buy' = [buy EXCEPT ![h].pc = "deduct", ![h].order_id = Len(orders) + 1]
           ELSE LET o == CHOOSE x \in own : TRUE
                IN  /\ orders' = [orders EXCEPT ![o] = row]
                    /\ buy' = [buy EXCEPT ![h].pc = "deduct", ![h].order_id = o]
    /\ UNCHANGED <<wallet_balance, price, active, topups, provider, cb, hist>>

\* line 398: INSERT INTO orders(...) VALUES(..., 'waiting') RETURNING id
BuyInsertOrder(h) ==
    /\ buy[h].pc = "insert" /\ InFlight(h)
    /\ orders' = Append(orders, [user_id |-> buy[h].user_id,
                                 service_id |-> buy[h].service_id,
                                 provider_order_id |-> buy[h].providerResult,
                                 status |-> "waiting"])
    /\ buy' = [buy EXCEPT ![h].pc = "deduct", ![h].order_id = Len(orders) + 1]
    /\ UNCHANGED <<wallet_balance, price, active, topups, provider, cb, hist>>

\* BuyDeduct as a read-modify-write: the new balance is computed in the
\* handler from the balance it read at line 389
BuyDeduct_Stale(h) ==
    /\ buy[h].pc = "deduct" /\ InFlight(h)
    /\ wallet_balance' = [wallet_balance EXCEPT
                            ![buy[h].user_id] = buy[h].u_balance - buy[h].service_price]
    /\ buy' = [buy EXCEPT ![h].pc = "done", ![h].res = "200"]
    /\ hist' = Touch(buy[h].user_id, h, "buy")
    /\ UNCHANGED <<price, active, topups, orders, provider, cb>>

\* BuyDeduct with the price read again from the services table at the time
\* of the deduction
BuyDeduct_Reread(h) ==
    /\ buy[h].pc = "deduct" /\ InFlight(h)
    /\ wallet_balance' = [wallet_balance EXCEPT
                            ![buy[h].user_id] = @ - price[buy[h].service_id]]
    /\ buy' = [buy EXCEPT ![h].pc = "done", ![h].res = "200"]
    /\ hist' = Touch(buy[h].user_id, h, "buy")
    /\ UNCHANGED <<price, active, topups, orders, provider, cb>>

\* lines 401 and 403: UPDATE users SET wallet_balance = wallet_balance - price
\* with the price of the row loaded at line 384 (one statement: the
\* subtraction is done by the database, with no condition), then the answer
BuyDeduct(h) ==
    /\ buy[h].pc = "deduct" /\ InFlight(h)
    /\ wallet_balance' = [wallet_balance EXCEPT ![buy[h].user_id] = @ - buy[h].service_price]
    /\ buy' = [buy EXCEPT ![h].pc = "done", ![h].res = "200"]
    /\ hist' = Touch(buy[h].user_id, h, "buy")
    /\ UNCHANGED <<price, active, topups, orders, provider, cb>>

\* lines 384, 389, 398, 401: the awaited statement rejects (or the process
\* stops there); the handler ends where it is, earlier statements stay
\* committed
BuyStop(h) ==
    /\ buy[h].pc \in {"load", "check", "insert", "deduct"} /\ InFlight(h)
    /\ buy' = [buy EXCEPT ![h].res = "thrown"]
    /\ UNCHANGED <<wallet_balance, price, active, topups, orders, provider, cb, hist>>

(* --------------------------- specification ----------------------------- *)
Next ==
    \/ \E u \in Users, amt \in Amounts : TopupCreate(u, amt)
    \/ \E c \in CbIds, tid \in TopupIds, st \in Statuses, amt \in BodyAmounts,
            sig \in Signatures :
            CallbackReceive(c, tid, st, amt, sig)
    \/ \E c \in CbIds : CallbackMarkPaid(c)
    \/ \E c \in CbIds : CallbackSelectTopup(c)
    \/ \E c \in CbIds : CallbackCredit(c)
    \/ \E c \in CbIds : CallbackStop(c)
    \/ \E s \in Services, p \in Prices : AdminSetPrice(s, p)
    \/ \E h \in BuyIds, u \in Users, sid \in ServiceIds : BuyReceive(h, u, sid)
    \/ \E h \in BuyIds : BuyLoadService(h)
    \/ \E h \in BuyIds : BuyCheckBalance(h)
    \/ \E h \in BuyIds : BuyCallProvider(h)
    \/ \E h \in BuyIds : BuyProviderError(h)
    \/ \E h \in BuyIds : BuyInsertOrder(h)
    \/ \E h \in BuyIds : BuyDeduct(h)
    \/ \E h \in BuyIds : BuyStop(h)

Spec == Init /\ [][Next]_vars

SpecInactive == InitInactive /\ [][Next]_vars

\* The statements of a handler are continuations on Node's event loop: one
\* that can run does run.  Requests, errors and admin updates are the
\* environment's and need never happen.
BuyStep(h) ==
    \/ BuyLoadService(h)
    \/ BuyCheckBalance(h)
    \/ BuyCallProvider(h)
    \/ BuyInsertOrder(h)
    \/ BuyDeduct(h)

CallbackStep(c) ==
    \/ CallbackMarkPaid(c)
    \/ CallbackSelectTopup(c)
    \/ CallbackCredit(c)

Fairness ==
    /\ \A h \in BuyIds : WF_vars(BuyStep(h))
    /\ \A c \in CbIds : WF_vars(CallbackStep(c))

FairSpec == Spec /\ Fairness

(* ------------------------ what the code leaves out --------------------- *)
\* migrations.sql creates users, services, topups and orders and no audit
\* table, and no statement of any route appends an audit row: the ledger
\* entries ([user_id, delta] records) are none, in every state
LedgerEntries == << >>

\* lines 340-343 and 360-363: getSms(providerOrderId) returns the provider's
\* answer; here the provider holds a code for every number it has allocated.
\* No route, timer or other code of the repository calls it.
getSms(providerOrderId) ==
    IF providerOrderId \in 1..provider THEN "code" ELSE "none"

(* ---------------------- what the handlers have done -------------------- *)
RECURSIVE Sum(_, _)
Sum(f, S) ==
    IF S = {} THEN 0
    ELSE LET x == CHOOSE y \in S : TRUE IN f[x] + Sum(f, S \ {x})

\* the callbacks that have run line 319 for topup row t
CreditsOf(t) ==
    {c \in CbIds : cb[c].pc = "done" /\ cb[c].status = "PAID" /\ cb[c].topupId = t}

\* what the completed callbacks have added to user u's balance
Credited(u) ==
    Sum([c \in CbIds |-> cb[c].row_amount],
        {c \in CbIds : cb[c].pc = "done" /\ cb[c].status = "PAID" /\ cb[c].row_user = u})

\* what the completed buys have taken from user u's balance
Debited(u) ==
    Sum([h \in BuyIds |-> buy[h].service_price],
        {h \in BuyIds : buy[h].res = "200" /\ buy[h].user_id = u})

\* the amounts of user u's topups that at least one callback has credited
CreditedOncePerTopup(u) ==
    Sum([t \in DOMAIN topups |-> topups[t].amount],
        {t \in DOMAIN topups : topups[t].user_id = u /\ CreditsOf(t) # {}})

BuyFailed == {"400", "402", "thrown"}

(* ------------------------------- claims -------------------------------- *)
\* C1: in every reachable state every user's wallet balance is >= 0.
C1_BalanceNonNegative ==
    \A u \in Users : wallet_balance[u] >= 0

\* C2: however many times the PAID confirmation of a topup is delivered, the
\* owner's balance holds that topup's amount once: the balance is the amounts
\* of the credited topups, each counted once, less the completed purchases.
C2_CreditedExactlyOnce ==
    \A u \in Users :
        wallet_balance[u] = DefaultBalance + CreditedOncePerTopup(u) - Debited(u)

\* C3: of two buys of one user that both pass the balance check while the
\* balance covers only one of them, and both run to their answer, exactly one
\* succeeds and the other is answered insufficient balance.
C3_ExactlyOneBuyWins ==
    \A h \in BuyIds : \A k \in hist[h].rivals :
        (buy[h].res \in {"200", "402"} /\ buy[k].res \in {"200", "402"})
            => \/ buy[h].res = "200" /\ buy[k].res = "402"
               \/ buy[h].res = "402" /\ buy[k].res = "200"

\* C4: in every reachable state, a handler stopped between two statements
\* included, a topup row is paid if and only if its amount has been credited.
C4_PaidIffCredited ==
    \A t \in DOMAIN topups :
        (topups[t].status = "paid") <=> (CreditsOf(t) # {})

\* C5: the step that ends a buy attempt in failure (400, 402 or a rejected
\* call) leaves the user's balance at its value when the attempt began,
\* provided no other operation changed that user's balance meanwhile.
C5_FailedBuyKeepsBalance ==
    [][\A h \in BuyIds :
         (InFlight(h) /\ buy'[h].res \in BuyFailed /\ hist'[h].touched = {})
            => wallet_balance'[buy[h].user_id] = hist[h].bal0]_vars

C5_Witness ==
    \E h \in BuyIds :
        /\ buy[h].res = "thrown" /\ buy[h].pc \in {"provider", "insert", "deduct"}
        /\ hist[h].touched = {}
        /\ hist[h].bal0 > 0

C7_DebitBeforeProvider ==
    \A h \in BuyIds : buy[h].providerResult # 0 => buy[h].pc = "done"

\* C8: the balance check of a buy made while the balance is below the
\* service price answers insufficient balance, calls no provider, creates no
\* order row and leaves every balance as it was; an attempt so answered has
\* no provider result and no order.
C8_InsufficientBalanceRejected ==
    [][\A h \in BuyIds :
         /\ (/\ InFlight(h) /\ buy[h].pc = "check"
             /\ buy'[h] # buy[h] /\ buy'[h].res # "thrown"
             /\ wallet_balance[buy[h].user_id] < buy[h].service_price)
                => /\ buy'[h].res = "402"
                   /\ buy'[h].providerResult = 0 /\ buy'[h].order_id = 0
                   /\ provider' = provider
                   /\ orders' = orders
                   /\ wallet_balance' = wallet_balance
         /\ buy[h].res = "402" => buy'[h] = buy[h]]_vars

\* the scenario of C8: a first buy took the whole balance, the second was
\* answered 402 and the order count is still one
C8_Witness ==
    \E h, k \in BuyIds :
        /\ buy[h].res = "200" /\ buy[k].res = "402"
        /\ buy[h].user_id = buy[k].user_id
        /\ buy[h].u_balance = buy[h].service_price
        /\ buy[k].u_balance = 0
        /\ Len(orders) = 1

\* C9: no update is lost: each user's balance is the default plus every
\* credit a callback has applied less every deduction a buy has applied,
\* however the handlers interleave.
C9_NoLostUpdate ==
    \A u \in Users :
        wallet_balance[u] = DefaultBalance + Credited(u) - Debited(u)

\* a buy completed although a credit landed between its balance read and its
\* deduction: a balance written back from the read would have lost the credit
C9_Witness ==
    \E h \in BuyIds :
        /\ buy[h].res = "200" /\ hist[h].touched = {"topup"}
        /\ wallet_balance[buy[h].user_id] # buy[h].u_balance - buy[h].service_price

\* C10: a FAILED confirmation for a pending topup sets the row's status to
\* failed and changes no balance.
C10_FailedMarksFailed ==
    [][\A c \in CbIds :
         (/\ cb[c].pc = "idle" /\ cb'[c].pc # "idle" /\ cb'[c].status = "FAILED"
          /\ cb'[c].topupId \in DOMAIN topups
          /\ topups[cb'[c].topupId].status = "pending")
            => /\ topups'[cb'[c].topupId].status = "failed"
               /\ wallet_balance' = wallet_balance]_vars

\* C11: a confirmation naming a topup id that has no row is answered with an
\* error and changes no topup row and no balance.
C11_UnknownReferenceRejected ==
    [][\A c \in CbIds :
         (/\ cb[c].res \in {"none", "pending"} /\ cb'[c].res \in {"OK", "thrown"}
          /\ cb'[c].topupId \notin DOMAIN topups)
            => /\ cb'[c].res = "thrown"
               /\ topups' = topups
               /\ wallet_balance' = wallet_balance]_vars

\* C12: a confirmation whose signature does not verify never changes a topup
\* row or a balance: no step of the handler that carries it writes either.
C12_InvalidSignatureChangesNothing ==
    [][\A c \in CbIds :
         (cb[c].signature = "invalid" /\ cb'[c] # cb[c])
            => /\ topups' = topups
               /\ wallet_balance' = wallet_balance]_vars

\* C13: a buy of a service whose active flag is false gets no further than
\* loading the service: no provider call, no order, no deduction.
C13_InactiveServiceRejected ==
    \A h \in BuyIds :
        (buy[h].service_id \in Services /\ ~active[buy[h].service_id])
            => /\ buy[h].pc \in {"idle", "load"}
               /\ buy[h].providerResult = 0 /\ buy[h].order_id = 0
               /\ buy[h].res # "200"

\* C14: the deduction of a buy takes from the balance exactly the price its
\* balance check compared the balance with, whatever the services table
\* holds by then.
C14_DeductsCheckedPrice ==
    [][\A h \in BuyIds :
         (buy[h].pc = "deduct" /\ buy'[h].pc = "done")
            => wallet_balance[buy[h].user_id] - wallet_balance'[buy[h].user_id]
                    = hist[h].checked]_vars

\* a buy completed although the admin changed its service's price between
\* its balance check and its deduction
C14_Witness ==
    \E h \in BuyIds :
        /\ buy[h].res = "200" /\ hist[h].repriced
        /\ hist[h].checked = buy[h].service_price
        /\ price[buy[h].service_id] # buy[h].service_price

\* C15: each user's balance equals the sum of the deltas of that user's
\* ledger entries (every balance mutation having appended one).
C15_BalanceIsLedgerSum ==
    \A u \in Users :
        wallet_balance[u] =
            Sum([i \in DOMAIN LedgerEntries |-> LedgerEntries[i].delta],
                {i \in DOMAIN LedgerEntries : LedgerEntries[i].user_id = u})

\* C16: an order in status waiting for whose provider order id getSms reports
\* a code eventually has status received.
C16_SmsResolves ==
    \A o \in 1..NumBuys :
        (/\ o \in DOMAIN orders
         /\ orders[o].status = "waiting"
         /\ getSms(orders[o].provider_order_id) = "code")
            ~> (o \in DOMAIN orders /\ orders[o].status = "received")

\* C17: no step moves an order out of a terminal status, and no step changes
\* a provider order id that has been set; rows are not removed.
C17_OrdersClosed ==
    [][\A o \in DOMAIN orders :
         /\ o \in DOMAIN orders'
         /\ orders[o].status \in {"received", "expired", "cancelled", "refunded"}
                => orders'[o].status = orders[o].status
         /\ orders[o].provider_order_id # 0
                => orders'[o].provider_order_id = orders[o].provider_order_id]_vars

\* a second order of the same user was written while the first, holding its
\* provider order id, was there
C17_Witness ==
    /\ Len(orders) = 2
    /\ orders[1].user_id = orders[2].user_id
    /\ orders[1].provider_order_id # 0
    /\ orders[2].provider_order_id # orders[1].provider_order_id

\* C18: when no buy handler is in flight, every order row is matched by
\* exactly one applied deduction of its price: one completed buy holds it.
C18_OrderHasItsCharge ==
    (\A h \in BuyIds : ~InFlight(h))
        => \A o \in DOMAIN orders :
              Cardinality({h \in BuyIds : buy[h].order_id = o /\ buy[h].res = "200"}) = 1

\* C19: the credit of a PAID callback adds the amount stored on the topup
\* row to the row's user and changes nothing else, whatever amount the
\* callback body carries.
C19_CreditsStoredAmount ==
    [][\A c \in CbIds :
         (cb[c].pc = "credit" /\ cb'[c].pc = "done")
            => wallet_balance' =
                 [wallet_balance EXCEPT ![topups[cb[c].topupId].user_id] =
                        @ + topups[cb[c].topupId].amount]]_vars

\* two PAID callbacks for one topup that differ in their amount field have
\* both been credited, each with the row's amount
C19_Witness ==
    \E c, d \in CbIds :
        /\ cb[c].pc = "done" /\ cb[c].status = "PAID"
        /\ cb[d].pc = "done" /\ cb[d].status = "PAID"
        /\ cb[c].topupId = cb[d].topupId
        /\ cb[c].amount # cb[d].amount
        /\ cb[c].row_amount = cb[d].row_amount
        /\ Credited(cb[c].row_user) = 2 * cb[c].row_amount

====
